---- MODULE Spec2Model ----
(***************************************************************************)
(* mbpcap: serial capture to pcap with silence framing and Modbus RTU      *)
(* frame splitting.  The decoder (pkg/decoder/modbus.go) is modelled as    *)
(* operators over byte sequences; the capture loop of main.go (reader      *)
(* goroutine, chunk channel, silence timer, flush closure, pcap writer) is *)
(* modelled as a state machine.                                            *)
(*                                                                         *)
(* Go slices are sequences of byte values 0..255.  A nil slice is the      *)
(* empty sequence: every slice the code tests against nil (the result of   *)
(* splitFrom, the remainder, prevExtra) is either nil or non-empty.        *)
(***************************************************************************)
EXTENDS Integers, Sequences, FiniteSets, TLC

VARIABLES
    \* ---- configuration (flags of main) ----
    modbusMode,        \* *modbusMode
    bigEndian,         \* *bigEndian, the byte order of the writer (pw.order)
    silenceThreshold,  \* silenceThreshold, in clock ticks
    \* ---- environment ----
    now,               \* wall clock, in ticks
    portChunks,        \* number of chunks the port delivers before it goes quiet
    produced,          \* number of chunks the port has delivered so far
    faults,            \* number of sink writes that have failed so far
    \* ---- reader goroutine ----
    readerPc,          \* "read" | "send" | "senderr" | "done"
    chunk,             \* the readResult the reader is about to enqueue
    \* ---- channels ----
    dataChan,          \* buffered channel of readResult
    errChan,           \* buffered channel of error (capacity 1)
    sigChan,           \* buffered channel of os.Signal (capacity 1)
    sigSent,           \* whether the environment has already sent a signal
    \* ---- event loop (locals of main) ----
    pc,                \* "loop" | "done"
    exitBy,            \* "" | "pipe" | "signal" | "readerr"
    packetBuf,
    firstByteTime,
    pipeBroken,
    timerAt,           \* deadline of silenceTimer, NoTimer when not armed
    timerStale,        \* a value of an earlier expiry is still in silenceTimer.C
    packetCount,
    prevExtra,
    prevExtraTime,
    sink,              \* what the pcap writer's io.Writer holds, record by record
    \* ---- history (not program state) ----
    pending,           \* the chunks delivered to the loop since the last flush
    writes,            \* every WritePacket call so far, with its outcome
    flushes,           \* every flush of a non-empty buffer so far
    \* ---- decoder harness ----
    splitPc,           \* "off" | "input" | "done"
    splitIn,           \* the input drawn for the decoder
    splitOut           \* what the decoder returned for it

loopVars == <<modbusMode, bigEndian, silenceThreshold, now, portChunks, produced, faults, readerPc, chunk,
              dataChan, errChan, sigChan, sigSent, pc, exitBy, packetBuf,
              firstByteTime, pipeBroken, timerAt, timerStale, packetCount,
              prevExtra, prevExtraTime, sink, pending, writes, flushes>>

splitVars == <<splitPc, splitIn, splitOut>>

vars == <<loopVars, splitVars>>

-----------------------------------------------------------------------------
(* Sequence helpers *)

Nil == <<>>

RECURSIVE Concat(_)
Concat(ss) == IF ss = <<>> THEN <<>> ELSE Head(ss) \o Concat(Tail(ss))

\* data[pos:] of Go, pos counted from 0
From(data, pos) == SubSeq(data, pos + 1, Len(data))

\* data[pos:pos+n] of Go, pos counted from 0
Slice(data, pos, n) == SubSeq(data, pos + 1, pos + n)

RECURSIVE SumLen(_, _)
SumLen(frames, n) == IF n = 0 THEN 0 ELSE SumLen(frames, n - 1) + Len(frames[n].Data)

-----------------------------------------------------------------------------
(* pkg/decoder/modbus.go *)

DirUnknown == 0

DirRequest == 1

DirResponse == 2

Candidate(length, dir) == [length |-> length, dir |-> dir]

Frame(data, dir) == [Data |-> data, Dir |-> dir]

\* Fault seeded in frameCandidates: for 0x01-0x04 the response candidate is
\* offered also when its length is 8.
frameCandidatesDup(data) ==
    IF Len(data) < 2 THEN <<>>
    ELSE CASE data[2] >= 1 /\ data[2] <= 4 ->
                <<Candidate(8, DirRequest)>> \o
                (IF Len(data) >= 3 THEN <<Candidate(5 + data[3], DirResponse)>> ELSE <<>>)
           [] data[2] = 5 \/ data[2] = 6 -> <<Candidate(8, DirUnknown)>>
           [] data[2] = 15 \/ data[2] = 16 ->
                IF Len(data) < 7 THEN <<>>
                ELSE <<Candidate(9 + data[7], DirRequest), Candidate(8, DirResponse)>>
           [] data[2] >= 129 /\ data[2] <= 144 -> <<Candidate(5, DirResponse)>>
           [] OTHER -> <<>>

\* frameCandidates: the candidate lengths and directions of the frame starting
\* at data[0]; data[1] is the function code.
frameCandidates(data) ==
    IF Len(data) < 2 THEN <<>>
    ELSE LET fc == data[2] IN
         CASE fc >= 1 /\ fc <= 4 ->
                <<Candidate(8, DirRequest)>> \o
                (IF Len(data) >= 3 /\ 5 + data[3] # 8
                    THEN <<Candidate(5 + data[3], DirResponse)>>
                    ELSE <<>>)
           [] fc = 5 \/ fc = 6 -> <<Candidate(8, DirUnknown)>>
           [] fc = 15 \/ fc = 16 ->
                IF Len(data) < 7 THEN <<>>
                ELSE <<Candidate(9 + data[7], DirRequest), Candidate(8, DirResponse)>>
           [] fc >= 129 /\ fc <= 144 -> <<Candidate(5, DirResponse)>>
           [] OTHER -> <<>>

\* FrameLen: the first candidate's length, -1 when there is none.
FrameLen(data) ==
    LET candidates == frameCandidates(data) IN
    IF Len(candidates) = 0 THEN -1 ELSE candidates[1].length

\* ValidCRC is a stub of the code: always true.
ValidCRC(data) == TRUE

\* splitFrom: depth-first search for a split of data[pos:] into frames, the
\* candidates tried in table order; Nil when there is none.  splitTry is the
\* for loop over the candidates, from candidate i on.
RECURSIVE splitFrom(_, _, _)
RECURSIVE splitTry(_, _, _, _, _)
\* A variant of the candidate loop that commits to the first candidate that
\* fits and never tries the next one
RECURSIVE splitTryNoBacktrack(_, _, _, _, _)
splitTryNoBacktrack(data, pos, acc, candidates, i) ==
    IF i > Len(candidates) THEN Nil
    ELSE IF pos + candidates[i].length > Len(data)
            THEN splitTryNoBacktrack(data, pos, acc, candidates, i + 1)
         ELSE splitFrom(data, pos + candidates[i].length,
                        Append(acc, Frame(Slice(data, pos, candidates[i].length),
                                          candidates[i].dir)))

\* A variant of the candidate loop that tries the candidates from the last of
\* the table to the first
RECURSIVE splitTryReversed(_, _, _, _, _)
splitTryReversed(data, pos, acc, candidates, i) ==
    IF i > Len(candidates) THEN Nil
    ELSE IF pos + candidates[Len(candidates) + 1 - i].length > Len(data)
            THEN splitTryReversed(data, pos, acc, candidates, i + 1)
         ELSE IF splitFrom(data, pos + candidates[Len(candidates) + 1 - i].length,
                           Append(acc, Frame(Slice(data, pos,
                                                   candidates[Len(candidates) + 1 - i].length),
                                             candidates[Len(candidates) + 1 - i].dir))) # Nil
                 THEN splitFrom(data, pos + candidates[Len(candidates) + 1 - i].length,
                                Append(acc, Frame(Slice(data, pos,
                                                        candidates[Len(candidates) + 1 - i].length),
                                                  candidates[Len(candidates) + 1 - i].dir)))
              ELSE splitTryReversed(data, pos, acc, candidates, i + 1)

splitTry(data, pos, acc, candidates, i) ==
    IF i > Len(candidates) THEN Nil
    ELSE LET c == candidates[i] IN
         IF pos + c.length > Len(data)
            THEN splitTry(data, pos, acc, candidates, i + 1)
         ELSE LET frame == Frame(Slice(data, pos, c.length), c.dir) IN
              IF ~ValidCRC(frame.Data)
                 THEN splitTry(data, pos, acc, candidates, i + 1)
              ELSE LET result == splitFrom(data, pos + c.length, Append(acc, frame)) IN
                   IF result # Nil THEN result
                   ELSE splitTry(data, pos, acc, candidates, i + 1)

splitFrom(data, pos, acc) ==
    IF pos = Len(data) THEN acc
    ELSE LET candidates == frameCandidates(From(data, pos)) IN
         IF Len(candidates) = 0 THEN Nil
         ELSE splitTry(data, pos, acc, candidates, 1)

\* SplitFrames: the exact split, or the whole input as one Unknown frame.
SplitFrames(data) ==
    LET result == splitFrom(data, 0, Nil) IN
    IF result = Nil THEN <<Frame(data, DirUnknown)>> ELSE result

\* A variant of the inner loop that takes the last candidate that fits
RECURSIVE firstFitLast(_, _, _, _)
firstFitLast(data, pos, candidates, i) ==
    IF i > Len(candidates) THEN 0
    ELSE IF firstFitLast(data, pos, candidates, i + 1) # 0
            THEN firstFitLast(data, pos, candidates, i + 1)
         ELSE IF pos + candidates[i].length <= Len(data) THEN i ELSE 0

\* The index of the first candidate that fits in data from pos, 0 when none does
\* (the inner for loop of SplitFramesPartial).
RECURSIVE firstFit(_, _, _, _)
firstFit(data, pos, candidates, i) ==
    IF i > Len(candidates) THEN 0
    ELSE IF pos + candidates[i].length <= Len(data)
            /\ ValidCRC(Slice(data, pos, candidates[i].length))
         THEN i
         ELSE firstFit(data, pos, candidates, i + 1)

\* The greedy loop of SplitFramesPartial: frames from the front until nothing fits.
RECURSIVE greedy(_, _, _)
greedy(data, pos, frames) ==
    IF pos >= Len(data) THEN [frames |-> frames, pos |-> pos]
    ELSE LET candidates == frameCandidates(From(data, pos))
             i == firstFit(data, pos, candidates, 1)
         IN  IF Len(candidates) = 0 \/ i = 0
                THEN [frames |-> frames, pos |-> pos]
             ELSE greedy(data, pos + candidates[i].length,
                         Append(frames, Frame(Slice(data, pos, candidates[i].length),
                                              candidates[i].dir)))

\* A variant of remainderSlice that returns the view data[pos:] instead of a copy
remainderSliceView(data, pos) ==
    [isNil |-> FALSE, shared |-> TRUE, bytes |-> From(data, pos)]

\* The remainder slice SplitFramesPartial builds after the greedy loop stopped
\* at pos: nil, or make and copy of data[pos:].  isNil is what a comparison
\* with nil gives, shared whether the slice has the backing array of data.
remainderSlice(data, pos) ==
    IF pos < Len(data) THEN [isNil |-> FALSE, shared |-> FALSE, bytes |-> From(data, pos)]
    ELSE [isNil |-> TRUE, shared |-> FALSE, bytes |-> Nil]

\* The second value SplitFramesPartial returns, as a slice
SplitFramesPartialSlice(data) ==
    IF splitFrom(data, 0, Nil) # Nil THEN [isNil |-> TRUE, shared |-> FALSE, bytes |-> Nil]
    ELSE remainderSlice(data, greedy(data, 0, Nil).pos)

\* A variant that returns the bytes after the greedy frames as one more frame
\* of unknown direction instead of as the remainder
SplitFramesPartialAsUnknown(data) ==
    IF splitFrom(data, 0, Nil) # Nil
       THEN [frames |-> splitFrom(data, 0, Nil), remainder |-> Nil]
    ELSE IF greedy(data, 0, Nil).pos < Len(data)
            THEN [frames |-> Append(greedy(data, 0, Nil).frames,
                                    Frame(From(data, greedy(data, 0, Nil).pos), DirUnknown)),
                  remainder |-> Nil]
         ELSE [frames |-> greedy(data, 0, Nil).frames, remainder |-> Nil]

\* SplitFramesPartial: the exact split when there is one, else the greedy
\* frames and a copy of the bytes after them.
SplitFramesPartial(data) ==
    LET result == splitFrom(data, 0, Nil) IN
    IF result # Nil THEN [frames |-> result, remainder |-> Nil]
    ELSE LET g == greedy(data, 0, Nil) IN
         [frames |-> g.frames, remainder |-> remainderSlice(data, g.pos).bytes]

-----------------------------------------------------------------------------
(* Decoder harness: the decoder applied to buffers built from a library of   *)
(* well-formed frames, proper prefixes of them, and garbage.                  *)

\* Most frames a drawn buffer is built from
MaxFrames == 3

\* reqFrame and respFrame of modbus_test.go: slave 2, read holding register 177
reqFrame == <<2, 3, 0, 177, 0, 1, 212, 30>>

respFrame == <<2, 3, 2, 2, 188, 252, 149>>

\* Well-formed frames, each with the direction the classifier table gives its
\* function code and length: the two reference frames, a write-single-register
\* frame (0x06), an exception response (0x83), a read-coils response (0x01)
\* carrying 11 data bytes, and a write-multiple-registers request (0x10)
\* carrying 2 data bytes.
FrameLib ==
    << Frame(reqFrame, DirRequest),
       Frame(respFrame, DirResponse),
       Frame(<<2, 6, 0, 1, 0, 3, 152, 56>>, DirUnknown),
       Frame(<<2, 131, 2, 48, 241>>, DirResponse),
       Frame(<<2, 1, 11, 1, 1, 1, 1, 1, 1, 1, 1, 1, 1, 1, 77, 78>>, DirResponse),
       Frame(<<2, 16, 0, 1, 0, 1, 2, 0, 5, 79, 80>>, DirRequest) >>

\* Trailing garbage: the classifier offers no candidate where it starts
\* (function codes 0xFE, 0xFF, or too short to tell).
GarbageLib ==
    { <<255, 254>>, <<255, 254, 253, 252, 251, 250>>, <<255>> }

LibIdx == 1..Len(FrameLib)

FrameSeqs(lo, hi) == UNION { [1..n -> LibIdx] : n \in lo..hi }

\* A drawn input: the frames fs, then the first k bytes of frame b (b = 0: none),
\* then the garbage g (Nil: none).  With no frame, no part and no garbage it
\* is the empty buffer.
SplitInputs ==
    { [fs |-> fs, b |-> 0, k |-> 0, g |-> Nil] : fs \in FrameSeqs(0, MaxFrames) }
    \cup UNION { { [fs |-> <<a>>, b |-> b, k |-> k, g |-> Nil] :
                      k \in 1..(Len(FrameLib[b].Data) - 1) } : a \in LibIdx, b \in LibIdx }
    \cup { [fs |-> fs, b |-> 0, k |-> 0, g |-> g] :
              fs \in FrameSeqs(0, MaxFrames - 1), g \in GarbageLib }

InFrames(in) == [i \in 1..Len(in.fs) |-> FrameLib[in.fs[i]]]

InPart(in) == IF in.b = 0 THEN Nil ELSE SubSeq(FrameLib[in.b].Data, 1, in.k)

InBytes(in) ==
    Concat([i \in 1..Len(in.fs) |-> FrameLib[in.fs[i]].Data]) \o InPart(in) \o in.g

NoSplitOut ==
    [exact |-> Nil, whole |-> Nil, partial |-> [frames |-> Nil, remainder |-> Nil],
     slice |-> [isNil |-> TRUE, shared |-> FALSE, bytes |-> Nil], buf |-> Nil, held |-> Nil]

\* The harness calls splitFrom, SplitFrames and SplitFramesPartial on the input.
\* buf is the caller's buffer, slice the remainder as a slice, held the bytes
\* the caller reads through it.
SplitApply ==
    /\ splitPc = "input"
    /\ splitPc' = "done"
    /\ splitOut' = [exact   |-> splitFrom(InBytes(splitIn), 0, Nil),
                    whole   |-> SplitFrames(InBytes(splitIn)),
                    partial |-> SplitFramesPartial(InBytes(splitIn)),
                    slice   |-> SplitFramesPartialSlice(InBytes(splitIn)),
                    buf     |-> InBytes(splitIn),
                    held    |-> SplitFramesPartialSlice(InBytes(splitIn)).bytes]
    /\ UNCHANGED <<splitIn, loopVars>>

\* Byte values the caller overwrites its buffer with
FillLib == {0, 255}

\* What is read through a slice of Len(bytes) bytes once the buffer it was cut
\* from holds buf: the end of buf when it shares the buffer's array, else its own
\* bytes
ReadThrough(slice, buf) ==
    IF slice.shared THEN From(buf, Len(buf) - Len(slice.bytes)) ELSE slice.bytes

\* After the call the caller overwrites the buffer it passed.
SplitReuse ==
    /\ splitPc = "done"
    /\ splitPc' = "reused"
    /\ \E v \in FillLib :
         splitOut' = [splitOut EXCEPT
                        !.buf = [i \in 1..Len(splitOut.buf) |-> v],
                        !.held = ReadThrough(splitOut.slice,
                                             [i \in 1..Len(splitOut.buf) |-> v])]
    /\ UNCHANGED <<splitIn, loopVars>>

\* Longest byte window drawn for the classifier
MaxWindow == 8

\* Function codes drawn: every class of the table and the codes next to each
FcLib == {0, 1, 2, 3, 4, 5, 6, 7, 14, 15, 16, 17, 127, 128, 129, 131, 144, 145, 255}

\* Values drawn for the third byte (the byte count of a 0x01-0x04 response)
\* and for the seventh (the byte count of a 0x0F/0x10 request)
CountLib == {0, 2, 3, 4, 250}

\* The byte windows drawn: slave address 1, a function code, counts, zeros,
\* cut to every length from 0 to MaxWindow
Windows ==
    { [i \in 1..n |-> CASE i = 1 -> 1 [] i = 2 -> fc [] i = 3 -> c3 [] i = 7 -> c7
                        [] OTHER -> 0] :
         n \in 0..MaxWindow, fc \in FcLib, c3 \in CountLib, c7 \in CountLib }

\* The harness calls frameCandidates and FrameLen on the window.
ClassifyApply ==
    /\ splitPc = "window"
    /\ splitPc' = "classified"
    /\ splitOut' = [candidates |-> frameCandidates(splitIn), frameLen |-> FrameLen(splitIn)]
    /\ UNCHANGED <<splitIn, loopVars>>

-----------------------------------------------------------------------------
(* main.go: line settings and time *)

\* Defaults of the -baud, -databits and -stopbits flags
Baud == 115200

DataBits == 8

StopBits == 1

Parity == "none"

\* charBits: bits per character on the wire (start + data + parity + stop).
charBits(databits, stopbitsN, parity) ==
    LET bits == 1 + databits + (IF parity # "none" THEN 1 ELSE 0) IN
    bits + stopbitsN

\* The clock of the model counts ticks of eight character times at the default
\* line settings: time.Time and time.Duration values are numbers of ticks.
TicksPerSecond == Baud \div 80

\* time.Duration(float64(n*bitsPerChar) / float64(baud) * float64(time.Second)):
\* the conversion to a Duration truncates.
WireTime(n) ==
    (n * charBits(DataBits, StopBits, Parity) * TicksPerSecond) \div Baud

\* time.Time{}: the zero time, before every reading of the clock
ZeroTime == 0

\* silenceTimer is not armed (stopped, or expired and received)
NoTimer == 0

-----------------------------------------------------------------------------
(* pkg/pcap/writer.go and rtacHeader of main.go *)

\* 0xa1b2c3d4, as its four bytes from the most significant (the number is
\* above the integers of the model checker)
magicNumber == <<161, 178, 195, 212>>

versionMajor == 2

versionMinor == 4

snapLen == 65535

DLTUser0 == 147

DLTRTACSer == 250

\* binary.BigEndian.PutUint32
BE32(v) == <<(v \div 16777216) % 256, (v \div 65536) % 256, (v \div 256) % 256, v % 256>>

\* uint32(ts.Unix())
UnixSec(ts) == ts \div TicksPerSecond

\* uint32(ts.Nanosecond() / 1000)
UnixUsec(ts) == ((ts % TicksPerSecond) * 1000000) \div TicksPerSecond

\* Fault seeded in rtacHeader: seconds and microseconds are put little-endian.
rtacHeaderLittle(ts, eventType) ==
    <<UnixSec(ts) % 256, (UnixSec(ts) \div 256) % 256, (UnixSec(ts) \div 65536) % 256,
      (UnixSec(ts) \div 16777216) % 256,
      UnixUsec(ts) % 256, (UnixUsec(ts) \div 256) % 256, (UnixUsec(ts) \div 65536) % 256,
      (UnixUsec(ts) \div 16777216) % 256,
      eventType, 0, 0, 0>>

\* rtacHeader: 12 bytes, big-endian seconds and microseconds, the event type,
\* three zero bytes.
rtacHeader(ts, eventType) ==
    BE32(UnixSec(ts)) \o BE32(UnixUsec(ts)) \o <<eventType, 0, 0, 0>>

\* The global header NewWriter writes (field values; 24 bytes in the file).
GlobalHeader(dlt) ==
    [Magic |-> magicNumber, VersionMajor |-> versionMajor, VersionMinor |-> versionMinor,
     ThisZone |-> 0, SigFigs |-> 0, SnapLen |-> snapLen, LinkType |-> dlt]

\* What one sink write can do: a WritePacket call makes two, the record header
\* and the payload.  A failed write is taken to have written nothing.
Outcomes == {"ok", "hdr_err", "hdr_epipe", "data_err", "data_epipe"}

IsEpipe(o) == o \in {"hdr_epipe", "data_epipe"}

\* Fault seeded in WritePacket: the payload is cut to snapLen bytes.
WritePacketTruncating(snk, ts, data, o) ==
    IF o \in {"hdr_err", "hdr_epipe"} THEN [sink |-> snk, err |-> o]
    ELSE [sink |-> Append(snk,
                     [hdr |-> [TsSec |-> UnixSec(ts), TsUsec |-> UnixUsec(ts),
                               CapLen |-> IF Len(data) > snapLen THEN snapLen ELSE Len(data),
                               OrigLen |-> Len(data)],
                      data |-> IF o # "ok" THEN Nil
                               ELSE IF Len(data) > snapLen THEN SubSeq(data, 1, snapLen)
                               ELSE data,
                      complete |-> o = "ok"]),
          err |-> o]

\* WritePacket: the 16-byte record header, then the payload; the first sink
\* error is returned.  The result holds the sink afterwards.
WritePacket(snk, ts, data, o) ==
    LET hdr == [TsSec |-> UnixSec(ts), TsUsec |-> UnixUsec(ts),
                CapLen |-> Len(data), OrigLen |-> Len(data)]
    IN  CASE o \in {"hdr_err", "hdr_epipe"} -> [sink |-> snk, err |-> o]
          [] o \in {"data_err", "data_epipe"} ->
                [sink |-> Append(snk, [hdr |-> hdr, data |-> Nil, complete |-> FALSE]),
                 err |-> o]
          [] OTHER ->
                [sink |-> Append(snk, [hdr |-> hdr, data |-> data, complete |-> TRUE]),
                 err |-> "ok"]

\* binary.Write of a uint32 (or int32) and of a uint16 in the writer's order
LE32(v) == <<v % 256, (v \div 256) % 256, (v \div 65536) % 256, (v \div 16777216) % 256>>

Put32(big, v) == IF big THEN BE32(v) ELSE LE32(v)

\* The same for a uint32 given as its four bytes from the most significant
PutBytes32(big, b) == IF big THEN b ELSE <<b[4], b[3], b[2], b[1]>>

\* Fault seeded in Put16: the byte order is ignored.
Put16Big(big, v) == <<(v \div 256) % 256, v % 256>>

Put16(big, v) == IF big THEN <<(v \div 256) % 256, v % 256>>
                        ELSE <<v % 256, (v \div 256) % 256>>

\* binary.Write(w, order, &hdr) of NewWriter: the fields in declaration order
GlobalHeaderBytes(big, h) ==
    PutBytes32(big, h.Magic) \o Put16(big, h.VersionMajor) \o Put16(big, h.VersionMinor)
    \o Put32(big, h.ThisZone) \o Put32(big, h.SigFigs) \o Put32(big, h.SnapLen)
    \o Put32(big, h.LinkType)

\* binary.Write(pw.w, pw.order, &hdr) of WritePacket
RecordHeaderBytes(big, h) ==
    Put32(big, h.TsSec) \o Put32(big, h.TsUsec) \o Put32(big, h.CapLen)
    \o Put32(big, h.OrigLen)

\* The bytes the sink holds: the global header, then for every record its
\* header and, when the payload write was made, its payload.
FileBytes(big, snk) ==
    Concat([k \in 1..Len(snk) |->
              IF k = 1 THEN GlobalHeaderBytes(big, snk[1])
              ELSE RecordHeaderBytes(big, snk[k].hdr) \o snk[k].data])

\* Most WritePacket calls the writer harness makes
MaxRecords == 2

\* Timestamps drawn for the harness: within the first second, and later with
\* a fraction of a second
TsLib == {1, TicksPerSecond + 7}

\* Payloads drawn for the harness: empty, short, and one byte longer than the
\* snapLen of the global header.  A call is recorded by the position of its
\* payload here.
PayloadLib == <<Nil, <<2, 3, 0>>, [i \in 1..(snapLen + 1) |-> i % 256]>>

-----------------------------------------------------------------------------
(* main.go: the flush closure *)

\* Fault seeded in staleRemainder: no remainder is ever found stale.
staleRemainderNever(extra, extraTime, fbt, thr) == FALSE

\* The staleness test of flush: a remainder is carried and the new buffer's
\* first byte came more than the silence threshold after it.
staleRemainder(extra, extraTime, fbt, thr) ==
    extra # Nil /\ fbt - extraTime > thr

\* Fault seeded in frameTime: only the frame just before is counted.
frameTimePrevOnly(frames, i, baseTime) ==
    IF i > 1 THEN baseTime + WireTime(Len(frames[i - 1].Data)) ELSE baseTime

\* The timestamp of frame i (from 1): baseTime, plus the wire time of the
\* frames before it.
frameTime(frames, i, baseTime) ==
    IF i > 1 THEN baseTime + WireTime(SumLen(frames, i - 1)) ELSE baseTime

\* A record of Modbus mode: the RTAC header, then the frame's bytes.
rtacRecord(ts, dir, data) ==
    [ts |-> ts, dir |-> dir, data |-> data, payload |-> rtacHeader(ts, dir) \o data]

\* Fault seeded in remainderTime: the remainder gets the base time itself.
remainderTimeBase(frames, remainder, baseTime) ==
    IF remainder # Nil THEN baseTime ELSE ZeroTime

\* prevExtraTime when frames were parsed: the base time plus the wire time of
\* all parsed bytes when a remainder is left, else it stays the zero time.
remainderTime(frames, remainder, baseTime) ==
    IF remainder # Nil THEN baseTime + WireTime(SumLen(frames, Len(frames)))
                       ELSE ZeroTime

\* The end of the Modbus branch: sp is the split that is used.  With frames,
\* the remainder is carried and one record per frame is written; with none,
\* the buffer (after the remainder, when one is held) is one Unknown record.
flushEmit(buf, fbt, extra, extraTime, stale, combined, sp, baseTime) ==
    IF Len(sp.frames) > 0
    THEN [stale |-> stale, extra |-> extra, combined |-> combined,
          parsed |-> IF combined THEN extra \o buf ELSE buf,
          baseTime |-> baseTime, frames |-> sp.frames, fallback |-> Nil,
          prevExtra |-> sp.remainder,
          prevExtraTime |-> remainderTime(sp.frames, sp.remainder, baseTime),
          recs |-> [i \in 1..Len(sp.frames) |->
                      rtacRecord(frameTime(sp.frames, i, baseTime),
                                 sp.frames[i].Dir, sp.frames[i].Data)]]
    ELSE [stale |-> stale, extra |-> extra, combined |-> combined,
          parsed |-> IF combined THEN extra \o buf ELSE buf,
          baseTime |-> baseTime, frames |-> Nil,
          fallback |-> IF extra # Nil THEN extra \o buf ELSE buf,
          prevExtra |-> Nil, prevExtraTime |-> ZeroTime,
          recs |-> << rtacRecord(IF extra # Nil THEN extraTime ELSE fbt, DirUnknown,
                                 IF extra # Nil THEN extra \o buf ELSE buf) >>]

\* Fault seeded in flushParse: the remainder is put after the buffer.
flushParseSwapped(buf, fbt, extra, extraTime, stale, alone) ==
    IF Len(alone.frames) = 0 /\ extra # Nil
       THEN flushEmit(buf, fbt, extra, extraTime, stale, TRUE,
                      SplitFramesPartial(buf \o extra), extraTime)
       ELSE flushEmit(buf, fbt, extra, extraTime, stale, FALSE, alone, fbt)

\* Fault seeded in flushParse: the buffer is never split again with the
\* remainder before it.
flushParseAlone(buf, fbt, extra, extraTime, stale, alone) ==
    flushEmit(buf, fbt, extra, extraTime, stale, FALSE, alone, fbt)

\* The middle of the Modbus branch: alone is the split of the new buffer; when
\* it has no frame and a remainder is held, the remainder is put before the
\* buffer, the whole is split again and the base time is the remainder's.
flushParse(buf, fbt, extra, extraTime, stale, alone) ==
    IF Len(alone.frames) = 0 /\ extra # Nil
       THEN flushEmit(buf, fbt, extra, extraTime, stale, TRUE,
                      SplitFramesPartial(extra \o buf), extraTime)
       ELSE flushEmit(buf, fbt, extra, extraTime, stale, FALSE, alone, fbt)

\* The Modbus branch of flush up to the write loops: what is parsed, the
\* records to write, and the remainder carried on.  extra0/extraTime0 are
\* prevExtra/prevExtraTime on entry; a stale remainder is dropped first.
flushModbus(buf, fbt, extra0, extraTime0, thr) ==
    flushParse(buf, fbt,
               IF staleRemainder(extra0, extraTime0, fbt, thr) THEN Nil ELSE extra0,
               extraTime0,
               staleRemainder(extra0, extraTime0, fbt, thr),
               SplitFramesPartial(buf))

\* The raw branch of flush: the buffer as one record at its first-byte time.
flushRaw(buf, fbt, extra0, extraTime0) ==
    [stale |-> FALSE, extra |-> Nil, combined |-> FALSE, parsed |-> Nil,
     baseTime |-> fbt, frames |-> Nil, fallback |-> Nil,
     prevExtra |-> extra0, prevExtraTime |-> extraTime0,
     recs |-> << [ts |-> fbt, dir |-> DirUnknown, data |-> buf, payload |-> buf] >>]

\* Fault seeded in stopsFlush: a broken pipe is handled like any other error.
stopsFlushNever(o) == FALSE

\* Fault seeded in stopsFlush: every write error ends the flush and the loop.
stopsFlushAlways(o) == TRUE

\* errors.Is(err, syscall.EPIPE): the flush sets pipeBroken and returns.
stopsFlush(o) == IsEpipe(o)

\* One pass of a write loop of flush: w is what WritePacket returned for rec.
\* st holds the sink, the call log, packetCount, pipeBroken and the number of
\* failed writes; fl is the number of this flush.
writeStep(st, rec, o, fl, w) ==
    [sink   |-> w.sink,
     log    |-> Append(st.log, [flush |-> fl, ts |-> rec.ts, dir |-> rec.dir,
                                data |-> rec.data, payload |-> rec.payload,
                                res |-> o]),
     count  |-> IF w.err # "ok" /\ stopsFlush(w.err) THEN st.count ELSE st.count + 1,
     broken |-> IF w.err # "ok" /\ stopsFlush(w.err) THEN TRUE ELSE st.broken,
     failed |-> IF w.err = "ok" THEN st.failed ELSE st.failed + 1]

\* The write loop of flush over recs[i..], the sink answering outs[i] to the
\* i-th WritePacket; the loop ends early when the pipe is broken.
RECURSIVE writeLoop(_, _, _, _, _)
writeLoop(recs, outs, i, fl, st) ==
    IF i > Len(recs) \/ st.broken THEN st
    ELSE writeLoop(recs, outs, i + 1, fl,
                   writeStep(st, recs[i], outs[i], fl,
                             WritePacket(st.sink, recs[i].ts, recs[i].payload, outs[i])))

\* What a flush of the current buffer parses and writes.
FlushPlan ==
    IF modbusMode
       THEN flushModbus(packetBuf, firstByteTime, prevExtra, prevExtraTime,
                        silenceThreshold)
       ELSE flushRaw(packetBuf, firstByteTime, prevExtra, prevExtraTime)

\* The end of flush: st is the state the write loop left.  The buffer is
\* reset, except in the Modbus branch when the pipe broke.
flushDone(plan, st) ==
    [packetBuf |-> IF st.broken /\ modbusMode THEN packetBuf ELSE Nil,
     pipeBroken |-> st.broken,
     packetCount |-> st.count,
     prevExtra |-> plan.prevExtra,
     prevExtraTime |-> plan.prevExtraTime,
     sink |-> st.sink,
     writes |-> st.log,
     flushes |-> Append(flushes,
                        [mode |-> modbusMode, buf |-> packetBuf,
                         T |-> firstByteTime, chunks |-> pending,
                         thr |-> silenceThreshold,
                         extraIn |-> prevExtra, extraTimeIn |-> prevExtraTime,
                         plan |-> plan]),
     pending |-> IF st.broken /\ modbusMode THEN pending ELSE Nil,
     faults |-> st.failed]

flushWrite(plan, outs) ==
    flushDone(plan, writeLoop(plan.recs, outs, 1, Len(flushes) + 1,
                              [sink |-> sink, log |-> writes, count |-> packetCount,
                               broken |-> FALSE, failed |-> faults]))

\* flush(): the values of the loop's variables after the call, the sink
\* answering outs to the WritePacket calls of this flush.  An empty buffer
\* makes it return at once.
flush(outs) ==
    IF Len(packetBuf) = 0
    THEN [packetBuf |-> packetBuf, pipeBroken |-> pipeBroken,
          packetCount |-> packetCount, prevExtra |-> prevExtra,
          prevExtraTime |-> prevExtraTime, sink |-> sink, writes |-> writes,
          flushes |-> flushes, pending |-> pending, faults |-> faults]
    ELSE flushWrite(FlushPlan, outs)

-----------------------------------------------------------------------------
(* Bounds of the model *)

\* Chunks the port delivers in one run
MaxChunks == 2

\* The clock stops here
MaxTime == 5

\* Largest silence threshold drawn, in ticks
MaxSilence == 1

\* Sink writes that fail in one run
MaxFaults == 1

\* make(chan readResult, 64)
DataChanCap == 64

\* What one port.Read can return: pieces of the reference exchange (request
\* plus the first two response bytes, the other five response bytes, those
\* five response bytes followed by the next request) and garbage.
ChunkLib ==
    { reqFrame \o SubSeq(respFrame, 1, 2),
      SubSeq(respFrame, 3, 7),
      SubSeq(respFrame, 3, 7) \o reqFrame,
      <<255, 254>> }

\* seq numbers the chunks in the order the port delivered them (it is not a
\* field of readResult)
NoChunk == [data |-> Nil, ts |-> ZeroTime, seq |-> 0]

\* The answers the sink may give to n WritePacket calls: within the fault
\* budget, and nothing is asked of it after a broken pipe.
OutcomeSeqs(n) ==
    { outs \in [1..n -> Outcomes] :
        /\ faults + Cardinality({i \in 1..n : outs[i] # "ok"}) <= MaxFaults
        /\ \A i \in 1..n : IsEpipe(outs[i]) => \A j \in (i + 1)..n : outs[j] = "ok" }

\* The number of WritePacket calls a flush of the current state starts with.
PlannedWrites == IF Len(packetBuf) = 0 THEN 0 ELSE Len(FlushPlan.recs)

-----------------------------------------------------------------------------
(* main.go: the reader goroutine, the signal, the clock *)

\* port.Read returns n > 0 bytes: the chunk is stamped with time.Now().
ReaderRead ==
    /\ pc = "loop" /\ readerPc = "read"
    /\ produced < portChunks
    /\ \E d \in ChunkLib : chunk' = [data |-> d, ts |-> now, seq |-> produced + 1]
    /\ readerPc' = "send"
    /\ produced' = produced + 1
    /\ UNCHANGED <<modbusMode, bigEndian, silenceThreshold, portChunks, now, faults, dataChan, errChan,
                   sigChan, sigSent, pc, exitBy, packetBuf, firstByteTime, pipeBroken,
                   timerAt, timerStale, packetCount, prevExtra, prevExtraTime, sink,
                   pending, writes, flushes, splitVars>>

\* Fault seeded in ReaderSend: the send never blocks.
ReaderSendUnbounded ==
    /\ pc = "loop" /\ readerPc = "send"
    /\ dataChan' = Append(dataChan, chunk)
    /\ chunk' = NoChunk
    /\ readerPc' = "read"
    /\ UNCHANGED <<modbusMode, bigEndian, silenceThreshold, portChunks, now, produced, faults, errChan,
                   sigChan, sigSent, pc, exitBy, packetBuf, firstByteTime, pipeBroken,
                   timerAt, timerStale, packetCount, prevExtra, prevExtraTime, sink,
                   pending, writes, flushes, splitVars>>

\* dataChan <- readResult{...}: blocks while the channel is full.
ReaderSend ==
    /\ pc = "loop" /\ readerPc = "send"
    /\ Len(dataChan) < DataChanCap
    /\ dataChan' = Append(dataChan, chunk)
    /\ chunk' = NoChunk
    /\ readerPc' = "read"
    /\ UNCHANGED <<modbusMode, bigEndian, silenceThreshold, portChunks, now, produced, faults, errChan,
                   sigChan, sigSent, pc, exitBy, packetBuf, firstByteTime, pipeBroken,
                   timerAt, timerStale, packetCount, prevExtra, prevExtraTime, sink,
                   pending, writes, flushes, splitVars>>

\* port.Read returns an error: errChan <- err; return.
ReaderFail ==
    /\ pc = "loop" /\ readerPc = "read"
    /\ errChan' = Append(errChan, "err")
    /\ readerPc' = "done"
    /\ UNCHANGED <<modbusMode, bigEndian, silenceThreshold, portChunks, now, produced, faults, chunk, dataChan,
                   sigChan, sigSent, pc, exitBy, packetBuf, firstByteTime, pipeBroken,
                   timerAt, timerStale, packetCount, prevExtra, prevExtraTime, sink,
                   pending, writes, flushes, splitVars>>

\* SIGINT or SIGTERM is delivered to sigChan.
Signal ==
    /\ pc = "loop" /\ ~sigSent
    /\ sigSent' = TRUE
    /\ sigChan' = TRUE
    /\ UNCHANGED <<modbusMode, bigEndian, silenceThreshold, portChunks, now, produced, faults, readerPc, chunk,
                   dataChan, errChan, pc, exitBy, packetBuf, firstByteTime, pipeBroken,
                   timerAt, timerStale, packetCount, prevExtra, prevExtraTime, sink,
                   pending, writes, flushes, splitVars>>

Tick ==
    /\ pc = "loop" /\ now < MaxTime
    /\ now' = now + 1
    /\ UNCHANGED <<modbusMode, bigEndian, silenceThreshold, portChunks, produced, faults, readerPc, chunk,
                   dataChan, errChan, sigChan, sigSent, pc, exitBy, packetBuf,
                   firstByteTime, pipeBroken, timerAt, timerStale, packetCount,
                   prevExtra, prevExtraTime, sink, pending, writes, flushes, splitVars>>

-----------------------------------------------------------------------------
(* main.go: the event loop *)

\* Variant: the value of silenceTimer arrives only after its deadline has passed
TimerReadyLate == timerAt # NoTimer /\ now > timerAt

\* silenceTimer has expired and its value is ready in silenceTimer.C
TimerReady == timerAt # NoTimer /\ now >= timerAt

\* Fault seeded in chunkFirstByteTime: every chunk sets firstByteTime.
chunkFirstByteTimeAlways(buf, fbt, c) == c.ts

\* firstByteTime after a chunk is taken: set only when the buffer was empty.
chunkFirstByteTime(buf, fbt, c) == IF Len(buf) = 0 THEN c.ts ELSE fbt

\* case chunk := <-dataChan.  silenceTimer.Reset does not drain the channel:
\* a value of an expiry that was not yet received stays in silenceTimer.C with
\* the timer channels of Go before 1.23 and is discarded with those of 1.23.
LoopChunk ==
    /\ pc = "loop" /\ dataChan # <<>>
    /\ LET c == Head(dataChan) IN
         /\ firstByteTime' = chunkFirstByteTime(packetBuf, firstByteTime, c)
         /\ packetBuf' = packetBuf \o c.data
         /\ pending' = Append(pending, c)
    /\ dataChan' = Tail(dataChan)
    /\ timerAt' = now + silenceThreshold
    /\ \/ timerStale' = FALSE
       \/ (TimerReady \/ timerStale) /\ timerStale' = TRUE
    /\ UNCHANGED <<modbusMode, bigEndian, silenceThreshold, portChunks, now, produced, faults, readerPc, chunk,
                   errChan, sigChan, sigSent, pc, exitBy, pipeBroken, packetCount,
                   prevExtra, prevExtraTime, sink, writes, flushes, splitVars>>

\* The assignments every flush() makes, from its result r.
Flushed(r) ==
    /\ packetBuf' = r.packetBuf
    /\ pipeBroken' = r.pipeBroken
    /\ packetCount' = r.packetCount
    /\ prevExtra' = r.prevExtra
    /\ prevExtraTime' = r.prevExtraTime
    /\ sink' = r.sink
    /\ writes' = r.writes
    /\ flushes' = r.flushes
    /\ pending' = r.pending
    /\ faults' = r.faults

\* case <-silenceTimer.C: flush, and return when the pipe is broken.
LoopTimer ==
    /\ pc = "loop" /\ (TimerReady \/ timerStale)
    /\ timerStale' = FALSE
    /\ timerAt' = IF TimerReady THEN NoTimer ELSE timerAt
    /\ \E outs \in OutcomeSeqs(PlannedWrites) : Flushed(flush(outs))
    /\ pc' = IF pipeBroken' THEN "done" ELSE "loop"
    /\ exitBy' = IF pipeBroken' THEN "pipe" ELSE exitBy
    /\ UNCHANGED <<modbusMode, bigEndian, silenceThreshold, portChunks, now, produced, readerPc, chunk,
                   dataChan, errChan, sigChan, sigSent, firstByteTime, splitVars>>

\* case <-sigChan: flush and return.
LoopSignal ==
    /\ pc = "loop" /\ sigChan
    /\ sigChan' = FALSE
    /\ \E outs \in OutcomeSeqs(PlannedWrites) : Flushed(flush(outs))
    /\ pc' = "done"
    /\ exitBy' = "signal"
    /\ UNCHANGED <<modbusMode, bigEndian, silenceThreshold, portChunks, now, produced, readerPc, chunk,
                   dataChan, errChan, sigSent, firstByteTime, timerAt, timerStale,
                   splitVars>>

\* case err := <-errChan: flush and return.
LoopReadErr ==
    /\ pc = "loop" /\ errChan # <<>>
    /\ errChan' = Tail(errChan)
    /\ \E outs \in OutcomeSeqs(PlannedWrites) : Flushed(flush(outs))
    /\ pc' = "done"
    /\ exitBy' = "readerr"
    /\ UNCHANGED <<modbusMode, bigEndian, silenceThreshold, portChunks, now, produced, readerPc, chunk,
                   dataChan, sigChan, sigSent, firstByteTime, timerAt, timerStale,
                   splitVars>>

-----------------------------------------------------------------------------
(* Specifications *)

NoSplitIn == [fs |-> <<>>, b |-> 0, k |-> 0, g |-> Nil]

\* The state when the event loop is entered: the container is open, the
\* reader goroutine runs, the timer is stopped and drained.
Init ==
    /\ modbusMode \in BOOLEAN
    /\ bigEndian \in BOOLEAN
    /\ silenceThreshold \in 1..MaxSilence
    /\ now = 1
    /\ portChunks = MaxChunks
    /\ produced = 0
    /\ faults = 0
    /\ readerPc = "read"
    /\ chunk = NoChunk
    /\ dataChan = <<>>
    /\ errChan = <<>>
    /\ sigChan = FALSE
    /\ sigSent = FALSE
    /\ pc = "loop"
    /\ exitBy = ""
    /\ packetBuf = Nil
    /\ firstByteTime = ZeroTime
    /\ pipeBroken = FALSE
    /\ timerAt = NoTimer
    /\ timerStale = FALSE
    /\ packetCount = 0
    /\ prevExtra = Nil
    /\ prevExtraTime = ZeroTime
    /\ sink = << GlobalHeader(IF modbusMode THEN DLTRTACSer ELSE DLTUser0) >>
    /\ pending = Nil
    /\ writes = <<>>
    /\ flushes = <<>>
    /\ splitPc = "off"
    /\ splitIn = NoSplitIn
    /\ splitOut = NoSplitOut

Next ==
    \/ ReaderRead
    \/ ReaderSend
    \/ ReaderFail
    \/ Signal
    \/ Tick
    \/ LoopChunk
    \/ LoopTimer
    \/ LoopSignal
    \/ LoopReadErr

Spec == Init /\ [][Next]_vars

\* The capture without -modbus
InitRaw == Init /\ modbusMode = FALSE

SpecRaw == InitRaw /\ [][Next]_vars

\* The capture with -modbus
InitModbus == Init /\ modbusMode = TRUE

SpecModbus == InitModbus /\ [][Next]_vars

\* The capture when the loop was not scheduled while the reader read and
\* enqueued chunks until one slot of dataChan was left; the port has MaxChunks
\* more chunks.  The run is the traffic through dataChan: the reader's reads
\* and sends and the chunk case of the loop, with no signal and no read error;
\* the silence threshold (-silence) is longer than the run, so the timer case
\* does not occur.
QueueFill == DataChanCap - 1

InitQueue ==
    /\ modbusMode = FALSE
    /\ bigEndian = FALSE
    /\ silenceThreshold = MaxTime
    /\ now = 1
    /\ portChunks = QueueFill + MaxChunks
    /\ produced = QueueFill
    /\ faults = 0
    /\ readerPc = "read"
    /\ chunk = NoChunk
    /\ dataChan = [k \in 1..QueueFill |-> [data |-> <<255, 254>>, ts |-> 1, seq |-> k]]
    /\ errChan = <<>>
    /\ sigChan = FALSE
    /\ sigSent = FALSE
    /\ pc = "loop"
    /\ exitBy = ""
    /\ packetBuf = Nil
    /\ firstByteTime = ZeroTime
    /\ pipeBroken = FALSE
    /\ timerAt = NoTimer
    /\ timerStale = FALSE
    /\ packetCount = 0
    /\ prevExtra = Nil
    /\ prevExtraTime = ZeroTime
    /\ sink = << GlobalHeader(DLTUser0) >>
    /\ pending = Nil
    /\ writes = <<>>
    /\ flushes = <<>>
    /\ splitPc = "off"
    /\ splitIn = NoSplitIn
    /\ splitOut = NoSplitOut

NextQueue ==
    \/ ReaderRead
    \/ ReaderSend
    \/ Tick
    \/ LoopChunk

SpecQueue == InitQueue /\ [][NextQueue]_vars

\* The capture when the loop was not scheduled until the reader had filled
\* dataChan; the port has one more chunk, and the clock is at its end.
InitFull ==
    /\ modbusMode = FALSE
    /\ bigEndian = FALSE
    /\ silenceThreshold = 1
    /\ now = MaxTime
    /\ portChunks = DataChanCap + 1
    /\ produced = DataChanCap
    /\ faults = 0
    /\ readerPc = "read"
    /\ chunk = NoChunk
    /\ dataChan = [k \in 1..DataChanCap |-> [data |-> <<255, 254>>, ts |-> 1, seq |-> k]]
    /\ errChan = <<>>
    /\ sigChan = FALSE
    /\ sigSent = FALSE
    /\ pc = "loop"
    /\ exitBy = ""
    /\ packetBuf = Nil
    /\ firstByteTime = ZeroTime
    /\ pipeBroken = FALSE
    /\ timerAt = NoTimer
    /\ timerStale = FALSE
    /\ packetCount = 0
    /\ prevExtra = Nil
    /\ prevExtraTime = ZeroTime
    /\ sink = << GlobalHeader(DLTUser0) >>
    /\ pending = Nil
    /\ writes = <<>>
    /\ flushes = <<>>
    /\ splitPc = "off"
    /\ splitIn = NoSplitIn
    /\ splitOut = NoSplitOut

\* The capture without -modbus started when the clock is one tick from its
\* end
InitLate ==
    /\ modbusMode = FALSE
    /\ bigEndian = FALSE
    /\ silenceThreshold \in 1..MaxSilence
    /\ now = MaxTime - 1
    /\ portChunks = MaxChunks
    /\ produced = 0
    /\ faults = 0
    /\ readerPc = "read"
    /\ chunk = NoChunk
    /\ dataChan = <<>>
    /\ errChan = <<>>
    /\ sigChan = FALSE
    /\ sigSent = FALSE
    /\ pc = "loop"
    /\ exitBy = ""
    /\ packetBuf = Nil
    /\ firstByteTime = ZeroTime
    /\ pipeBroken = FALSE
    /\ timerAt = NoTimer
    /\ timerStale = FALSE
    /\ packetCount = 0
    /\ prevExtra = Nil
    /\ prevExtraTime = ZeroTime
    /\ sink = << GlobalHeader(DLTUser0) >>
    /\ pending = Nil
    /\ writes = <<>>
    /\ flushes = <<>>
    /\ splitPc = "off"
    /\ splitIn = NoSplitIn
    /\ splitOut = NoSplitOut

\* One pass of the for loop of main: the select takes a case that is ready
LoopStep == LoopChunk \/ LoopTimer \/ LoopSignal \/ LoopReadErr

\* The capture without -modbus, from its start or from the full queue, with
\* the scheduling the Go runtime gives: the main goroutine runs when a case of
\* its select is ready, and time passes.  Nothing is assumed of the port, the
\* reader goroutine or the signal.
InitLive == InitLate \/ InitFull

SpecLive == InitLive /\ [][Next]_vars /\ WF_vars(LoopStep) /\ WF_vars(Tick)

\* The decoder harness: the capture loop is not running.
InitSplit ==
    /\ modbusMode = TRUE
    /\ bigEndian = FALSE
    /\ silenceThreshold = 1
    /\ now = 1
    /\ portChunks = 0
    /\ produced = 0
    /\ faults = 0
    /\ readerPc = "done"
    /\ chunk = NoChunk
    /\ dataChan = <<>>
    /\ errChan = <<>>
    /\ sigChan = FALSE
    /\ sigSent = FALSE
    /\ pc = "off"
    /\ exitBy = ""
    /\ packetBuf = Nil
    /\ firstByteTime = ZeroTime
    /\ pipeBroken = FALSE
    /\ timerAt = NoTimer
    /\ timerStale = FALSE
    /\ packetCount = 0
    /\ prevExtra = Nil
    /\ prevExtraTime = ZeroTime
    /\ sink = <<>>
    /\ pending = Nil
    /\ writes = <<>>
    /\ flushes = <<>>
    /\ splitPc = "input"
    /\ splitIn \in SplitInputs
    /\ splitOut = NoSplitOut

NextSplit == SplitApply \/ SplitReuse

\* The writer harness calls WritePacket on the open container, as the tests
\* of writer_test.go do; the sink answers o.
WriterWrite ==
    /\ splitPc = "writer"
    /\ Len(writes) < MaxRecords
    /\ \E ts \in TsLib, p \in DOMAIN PayloadLib, o \in Outcomes :
         /\ o # "ok" => faults < MaxFaults
         /\ sink' = WritePacket(sink, ts, PayloadLib[p], o).sink
         /\ writes' = Append(writes, [ts |-> ts, arg |-> p, res |-> o])
         /\ faults' = IF o = "ok" THEN faults ELSE faults + 1
    /\ UNCHANGED <<modbusMode, bigEndian, silenceThreshold, portChunks, now, produced,
                   readerPc, chunk, dataChan, errChan, sigChan, sigSent, pc, exitBy,
                   packetBuf, firstByteTime, pipeBroken, timerAt, timerStale,
                   packetCount, prevExtra, prevExtraTime, pending, flushes, splitVars>>

\* The writer harness: NewWriter has written the global header.
InitWriter ==
    /\ modbusMode \in BOOLEAN
    /\ bigEndian \in BOOLEAN
    /\ silenceThreshold = 1
    /\ now = 1
    /\ portChunks = 0
    /\ produced = 0
    /\ faults = 0
    /\ readerPc = "done"
    /\ chunk = NoChunk
    /\ dataChan = <<>>
    /\ errChan = <<>>
    /\ sigChan = FALSE
    /\ sigSent = FALSE
    /\ pc = "off"
    /\ exitBy = ""
    /\ packetBuf = Nil
    /\ firstByteTime = ZeroTime
    /\ pipeBroken = FALSE
    /\ timerAt = NoTimer
    /\ timerStale = FALSE
    /\ packetCount = 0
    /\ prevExtra = Nil
    /\ prevExtraTime = ZeroTime
    /\ sink = << GlobalHeader(IF modbusMode THEN DLTRTACSer ELSE DLTUser0) >>
    /\ pending = Nil
    /\ writes = <<>>
    /\ flushes = <<>>
    /\ splitPc = "writer"
    /\ splitIn = NoSplitIn
    /\ splitOut = NoSplitOut

NextWriter == WriterWrite

SpecWriter == InitWriter /\ [][NextWriter]_vars

\* The classifier harness
InitClassify ==
    /\ modbusMode = TRUE
    /\ bigEndian = FALSE
    /\ silenceThreshold = 1
    /\ now = 1
    /\ portChunks = 0
    /\ produced = 0
    /\ faults = 0
    /\ readerPc = "done"
    /\ chunk = NoChunk
    /\ dataChan = <<>>
    /\ errChan = <<>>
    /\ sigChan = FALSE
    /\ sigSent = FALSE
    /\ pc = "off"
    /\ exitBy = ""
    /\ packetBuf = Nil
    /\ firstByteTime = ZeroTime
    /\ pipeBroken = FALSE
    /\ timerAt = NoTimer
    /\ timerStale = FALSE
    /\ packetCount = 0
    /\ prevExtra = Nil
    /\ prevExtraTime = ZeroTime
    /\ sink = <<>>
    /\ pending = Nil
    /\ writes = <<>>
    /\ flushes = <<>>
    /\ splitPc = "window"
    /\ splitIn \in Windows
    /\ splitOut = NoSplitOut

NextClassify == ClassifyApply

SpecClassify == InitClassify /\ [][NextClassify]_vars

SpecSplit == InitSplit /\ [][NextSplit]_vars

-----------------------------------------------------------------------------
(* Properties of the capture loop *)

\* The WritePacket calls of flush number i, in order
FlushWrites(i) ==
    LET OfFlush(w) == w.flush = i IN SelectSeq(writes, OfFlush)

\* The bytes of a sequence of chunks, in order
ChunkData(chs) == Concat([k \in 1..Len(chs) |-> chs[k].data])

\* What a WritePacket call or a planned record passes to the writer
Call(r) == [ts |-> r.ts, payload |-> r.payload]

Calls(rs) == [k \in 1..Len(rs) |-> Call(rs[k])]

\* A record of the call log as the frame it carries
AsFrame(r) == Frame(r.data, r.dir)

AsFrames(rs) == [k \in 1..Len(rs) |-> AsFrame(rs[k])]

FrameBytes(frames) == Concat([k \in 1..Len(frames) |-> frames[k].Data])

AnyEpipe(ws) == \E k \in 1..Len(ws) : IsEpipe(ws[k].res)

\* The staleness of the remainder a flush found, computed from what it found
StaleAt(fl) == fl.extraIn # Nil /\ fl.T - fl.extraTimeIn > fl.thr

\* C1: without frame splitting, the buffer always holds the chunks delivered
\* since the last flush, in order, and firstByteTime is the arrival time of
\* the first of them; every flush of a non-empty buffer makes exactly one
\* WritePacket call, with those chunks' bytes and the first chunk's arrival
\* time, and leaves the buffer empty.
C1_FlushWritesWindow ==
    /\ packetBuf = ChunkData(pending)
    /\ pending # <<>> => firstByteTime = pending[1].ts
    /\ \A i \in 1..Len(flushes) :
         ~flushes[i].mode =>
            /\ flushes[i].chunks # <<>>
            /\ Calls(FlushWrites(i)) =
                 << [ts |-> flushes[i].chunks[1].ts,
                     payload |-> ChunkData(flushes[i].chunks)] >>

\* C1 witness: a raw flush of two chunks that arrived at different times,
\* written successfully.
C1_Witness ==
    \E i \in 1..Len(flushes) :
       /\ ~flushes[i].mode
       /\ Len(flushes[i].chunks) = 2
       /\ flushes[i].chunks[1].ts < flushes[i].chunks[2].ts
       /\ Len(FlushWrites(i)) = 1
       /\ FlushWrites(i)[1].res = "ok"
       /\ packetBuf = Nil

\* C2: when the loop has exited on a signal and no write failed, no buffered
\* byte and no carried remainder byte is left unwritten.
C2_SignalDrainsRemainder ==
    (pc = "done" /\ exitBy = "signal" /\ faults = 0)
        => (packetBuf = Nil /\ prevExtra = Nil)

\* C3: a WritePacket call that failed with a broken pipe is the last call
\* ever made, and the loop has terminated.
C3_NoWriteAfterBrokenPipe ==
    \A i \in 1..Len(writes) :
       IsEpipe(writes[i].res) =>
          /\ i = Len(writes)
          /\ pipeBroken
          /\ pc = "done"

\* C3 witness: the pipe broke on a frame that was not the last of its flush,
\* and the frames after it were not written.
C3_Witness ==
    /\ pc = "done" /\ exitBy = "pipe"
    /\ flushes # <<>>
    /\ Len(FlushWrites(Len(flushes))) < Len(flushes[Len(flushes)].plan.recs)
    /\ IsEpipe(writes[Len(writes)].res)

\* The payloads of the complete records in the sink, after the global header
SinkPayloads ==
    LET Complete(r) == r.complete
        recs == SelectSeq(SubSeq(sink, 2, Len(sink)), Complete)
    IN  [k \in 1..Len(recs) |-> recs[k].data]

\* The payloads of the WritePacket calls that succeeded
WrittenPayloads ==
    LET Ok(w) == w.res = "ok"
        ws == SelectSeq(writes, Ok)
    IN  [k \in 1..Len(ws) |-> ws[k].payload]

\* C4: a write error other than a broken pipe ends neither the flush nor the
\* loop: a flush without a broken pipe makes a WritePacket call for every
\* record it planned, the loop exits for a broken pipe only when a call
\* reported one, and the sink holds every record whose call succeeded.
C4_OtherErrorsDoNotAbort ==
    /\ \A i \in 1..Len(flushes) :
         ~AnyEpipe(FlushWrites(i)) => Calls(FlushWrites(i)) = Calls(flushes[i].plan.recs)
    /\ ~AnyEpipe(writes) => (~pipeBroken /\ exitBy # "pipe")
    /\ (~AnyEpipe(writes) /\ exitBy = "") => pc = "loop"
    /\ SinkPayloads = WrittenPayloads

\* C4 witness: the first frame of a flush failed with another error, the
\* later frame of the same flush was written, and the loop is still running.
C4_Witness ==
    \E i \in 1..Len(flushes) :
       /\ Len(FlushWrites(i)) >= 2
       /\ FlushWrites(i)[1].res \in {"hdr_err", "data_err"}
       /\ FlushWrites(i)[2].res = "ok"
       /\ pc = "loop"

IsPrefix(a, b) == Len(a) <= Len(b) /\ SubSeq(b, 1, Len(a)) = a

\* Flush i parsed its buffer alone and left a remainder that flush i + 1
\* found not stale.
LeavesFreshRemainder(i) ==
    /\ i + 1 <= Len(flushes)
    /\ flushes[i].mode
    /\ flushes[i].plan.parsed = flushes[i].buf
    /\ flushes[i].plan.frames # Nil
    /\ flushes[i].plan.prevExtra # Nil
    /\ ~StaleAt(flushes[i + 1])

\* The frames two consecutive flushes emit, and the frames of one split of
\* the two buffers together
TwoFlushFrames(i) == AsFrames(flushes[i].plan.recs) \o AsFrames(flushes[i + 1].plan.recs)

OnePassFrames(i) == SplitFramesPartial(flushes[i].buf \o flushes[i + 1].buf).frames

C7_CombinedRetry ==
    /\ \A i \in 1..Len(flushes) :
         LET fl == flushes[i]
             sp == SplitFramesPartial(fl.extraIn \o fl.buf)
         IN  ( /\ fl.mode
               /\ fl.extraIn # Nil /\ ~StaleAt(fl)
               /\ SplitFramesPartial(fl.buf).frames = Nil )
             => /\ fl.plan.parsed = fl.extraIn \o fl.buf
                /\ fl.plan.baseTime = fl.extraTimeIn
                /\ fl.plan.recs[1].ts = fl.extraTimeIn
                /\ sp.frames # Nil =>
                     /\ AsFrames(fl.plan.recs) = sp.frames
                     /\ fl.plan.prevExtra = sp.remainder
                     /\ ~AnyEpipe(FlushWrites(i)) =>
                          AsFrames(FlushWrites(i)) = sp.frames
    /\ ( /\ Len(flushes) >= 2
         /\ flushes[1].mode
         /\ flushes[1].buf = reqFrame \o SubSeq(respFrame, 1, 2)
         /\ flushes[2].buf = SubSeq(respFrame, 3, 7)
         /\ ~StaleAt(flushes[2])
         /\ \A k \in 1..Len(writes) : writes[k].flush <= 2 => writes[k].res = "ok" )
       => /\ AsFrames(FlushWrites(1)) = <<Frame(reqFrame, DirRequest)>>
          /\ AsFrames(FlushWrites(2)) = <<Frame(respFrame, DirResponse)>>
          /\ FlushWrites(1)[1].ts = flushes[1].T
          /\ FlushWrites(2)[1].ts = flushes[1].T + WireTime(Len(reqFrame))
          /\ flushes[2].plan.prevExtra = Nil

\* C7 witness: the reference exchange cut after the response's second byte,
\* the second window flushed while the remainder was not stale, both records
\* written.
C7_Witness ==
    /\ Len(flushes) = 2
    /\ flushes[1].mode
    /\ flushes[1].buf = reqFrame \o SubSeq(respFrame, 1, 2)
    /\ flushes[2].buf = SubSeq(respFrame, 3, 7)
    /\ ~StaleAt(flushes[2])
    /\ Len(writes) = 2
    /\ writes[1].res = "ok" /\ writes[2].res = "ok"
    /\ writes[2].dir = DirResponse /\ writes[2].data = respFrame
    /\ prevExtra = Nil

Range(f) == { f[x] : x \in DOMAIN f }

\* The number of ways to cut data from pos into frames the classifier offers
RECURSIVE NumSplits(_, _)
RECURSIVE NumSplitsVia(_, _, _, _)
NumSplits(data, pos) ==
    IF pos = Len(data) THEN 1
    ELSE NumSplitsVia(data, pos, frameCandidates(From(data, pos)), 1)

NumSplitsVia(data, pos, cs, i) ==
    IF i > Len(cs) THEN 0
    ELSE (IF pos + cs[i].length <= Len(data) THEN NumSplits(data, pos + cs[i].length) ELSE 0)
         + NumSplitsVia(data, pos, cs, i + 1)

\* The candidates, in table order, the classifier offers at pos that fit in data
Fitting(data, pos) ==
    SelectSeq(frameCandidates(From(data, pos)), LAMBDA c : pos + c.length <= Len(data))

\* The frame is the first candidate that fits at pos
FirstFits(data, pos, frame) ==
    /\ Fitting(data, pos) # <<>>
    /\ Head(Fitting(data, pos)) = Candidate(Len(frame.Data), frame.Dir)
    /\ Slice(data, pos, Len(frame.Data)) = frame.Data

\* Every frame of the list is, at its offset, a candidate the classifier offers
Offered(data, frames) ==
    \A j \in 1..Len(frames) :
       /\ Slice(data, SumLen(frames, j - 1), Len(frames[j].Data)) = frames[j].Data
       /\ \E c \in Range(frameCandidates(From(data, SumLen(frames, j - 1)))) :
             c = Candidate(Len(frames[j].Data), frames[j].Dir)

\* Every frame of the list is, at its offset, the first candidate that fits
GreedyConsistent(data, frames) ==
    \A j \in 1..Len(frames) : FirstFits(data, SumLen(frames, j - 1), frames[j])

SplitDone == splitPc = "done"

FramesOnly == splitIn.fs # <<>> /\ splitIn.b = 0 /\ splitIn.g = Nil

WithPartial == splitIn.b # 0

WithGarbage == splitIn.g # Nil

\* C8 as stated: the exact split of a concatenation of well-formed frames is
\* those frames, in order, with their bytes and directions.
C8_ExactSplitReturnsFrames ==
    (SplitDone /\ FramesOnly) => splitOut.exact = InFrames(splitIn)

\* C8 amended: the exact split of a concatenation of N well-formed frames is a
\* partition of the whole buffer into frames the classifier offers, and it is
\* the N frames with their directions whenever the buffer has only one such
\* partition (as request 02 03 00 B1 00 01 D4 1E then response
\* 02 03 02 02 BC FC 95 has).
C8_ExactSplitWhenUnambiguous ==
    (SplitDone /\ FramesOnly) =>
       /\ splitOut.exact # Nil
       /\ FrameBytes(splitOut.exact) = InBytes(splitIn)
       /\ Offered(InBytes(splitIn), splitOut.exact)
       /\ NumSplits(InBytes(splitIn), 0) = 1 => splitOut.exact = InFrames(splitIn)
       /\ InFrames(splitIn) = <<Frame(reqFrame, DirRequest), Frame(respFrame, DirResponse)>>
             => splitOut.exact = InFrames(splitIn)

\* C8 witness: the response followed by the request, which the splitter gets
\* right only by backtracking from the 8-byte request candidate.
C8_Witness ==
    /\ SplitDone /\ FramesOnly
    /\ InFrames(splitIn) = <<Frame(respFrame, DirResponse), Frame(reqFrame, DirRequest)>>
    /\ NumSplits(InBytes(splitIn), 0) = 1
    /\ splitOut.exact = InFrames(splitIn)

\* C9 as stated: frame A followed by the first K bytes of frame B splits into
\* the frame list [A] and those K bytes as remainder.
C9_PartialReturnsFrameAndRemainder ==
    (SplitDone /\ WithPartial) =>
       splitOut.partial = [frames |-> InFrames(splitIn), remainder |-> InPart(splitIn)]

\* C9 amended: frame A followed by the first K bytes of frame B splits into
\* [A] and those K bytes when the buffer has no full partition, A is the first
\* candidate that fits at offset 0, and no candidate the classifier offers for
\* the K bytes fits in them; this is so for the reference request followed by
\* 1 to 6 bytes of the reference response.
C9_PartialWhenUnambiguous ==
    (SplitDone /\ WithPartial) =>
       /\ ( /\ NumSplits(InBytes(splitIn), 0) = 0
            /\ FirstFits(InBytes(splitIn), 0, InFrames(splitIn)[1])
            /\ Fitting(InBytes(splitIn), Len(InFrames(splitIn)[1].Data)) = <<>> )
          => splitOut.partial =
                [frames |-> InFrames(splitIn), remainder |-> InPart(splitIn)]
       /\ ( /\ InFrames(splitIn) = <<Frame(reqFrame, DirRequest)>>
            /\ FrameLib[splitIn.b].Data = respFrame )
          => splitOut.partial =
                [frames |-> InFrames(splitIn), remainder |-> InPart(splitIn)]

\* C9 witness: the reference request followed by the first 2 response bytes.
C9_Witness ==
    /\ SplitDone /\ WithPartial
    /\ InBytes(splitIn) = reqFrame \o <<2, 3>>
    /\ splitOut.partial = [frames |-> <<Frame(reqFrame, DirRequest)>>, remainder |-> <<2, 3>>]

\* C10 as stated: for a buffer that ends in garbage the exact split returns
\* none and the greedy partial split returns the garbage as a single
\* Unknown-direction frame.
C10_GarbageAsUnknownFrame ==
    (SplitDone /\ WithGarbage) =>
       /\ splitOut.exact = Nil
       /\ splitOut.partial =
             [frames |-> Append(InFrames(splitIn), Frame(splitIn.g, DirUnknown)),
              remainder |-> Nil]

\* C10 amended: when the exact split of a buffer that ends in garbage returns
\* none, SplitFrames returns the whole buffer as a single Unknown-direction
\* frame, and SplitFramesPartial returns frames the classifier offers followed
\* by a non-empty remainder at whose start no candidate fits, together the
\* whole buffer; the frames are the leading frames and the remainder is the
\* garbage when each leading frame is the first candidate that fits at its
\* offset.
C10_GarbageIsRemainder ==
    (SplitDone /\ WithGarbage /\ splitOut.exact = Nil) =>
       /\ NumSplits(InBytes(splitIn), 0) = 0
       /\ splitOut.whole = <<Frame(InBytes(splitIn), DirUnknown)>>
       /\ splitOut.partial.remainder # Nil
       /\ FrameBytes(splitOut.partial.frames) \o splitOut.partial.remainder = InBytes(splitIn)
       /\ Offered(InBytes(splitIn), splitOut.partial.frames)
       /\ Fitting(InBytes(splitIn), SumLen(splitOut.partial.frames, Len(splitOut.partial.frames))) = <<>>
       /\ GreedyConsistent(InBytes(splitIn), InFrames(splitIn))
             => splitOut.partial = [frames |-> InFrames(splitIn), remainder |-> splitIn.g]

\* C10 witness: the reference request followed by FF FE.
C10_Witness ==
    /\ SplitDone /\ WithGarbage
    /\ InBytes(splitIn) = reqFrame \o <<255, 254>>
    /\ splitOut.exact = Nil
    /\ splitOut.whole = <<Frame(reqFrame \o <<255, 254>>, DirUnknown)>>
    /\ splitOut.partial = [frames |-> <<Frame(reqFrame, DirRequest)>>, remainder |-> <<255, 254>>]

-----------------------------------------------------------------------------
(* Properties of the capture loop, continued *)

\* The remainder a flush found and did not find stale
FreshExtra(fl) == IF StaleAt(fl) THEN Nil ELSE fl.extraIn

\* C11 as stated: in frame-splitting mode every flush accounts for every byte
\* of its buffer and of the carried remainder that is not stale: the bytes
\* are in the records of the flush, in order, or in the remainder carried on;
\* when nothing was parsed they are one Unknown-direction record, unchanged.
C11_UnparseableCapturedVerbatim ==
    \A i \in 1..Len(flushes) :
       flushes[i].mode =>
          /\ FreshExtra(flushes[i]) \o flushes[i].buf
                = FrameBytes(AsFrames(flushes[i].plan.recs)) \o flushes[i].plan.prevExtra
          /\ flushes[i].plan.frames = Nil =>
                AsFrames(flushes[i].plan.recs)
                   = <<Frame(FreshExtra(flushes[i]) \o flushes[i].buf, DirUnknown)>>

\* C12 as stated: whenever the timer case flushes a non-empty buffer, the
\* chunk queue holds no chunk the reader enqueued before the flush started.
C12_TimerFlushFindsQueueEmpty ==
    [][(LoopTimer /\ packetBuf # Nil) => dataChan = <<>>]_vars

\* The chunks the loop has received so far, in the order it received them
Received == Concat([i \in 1..Len(flushes) |-> flushes[i].chunks]) \o pending

\* The chunk the reader has read and not yet enqueued
InHand == IF readerPc = "send" THEN <<chunk>> ELSE <<>>

Seqs(chs) == [k \in 1..Len(chs) |-> chs[k].seq]

\* C13: dataChan never holds more than its capacity; the chunks the loop has
\* received, then those in dataChan, then the one the reader holds, are all
\* the chunks the port delivered, each once, in the order it delivered them;
\* while dataChan is full and the reader holds a chunk, the reader can neither
\* enqueue it nor read again.
C13_QueueBoundedInOrder ==
    /\ Len(dataChan) <= DataChanCap
    /\ pc = "loop" => Seqs(Received \o dataChan \o InHand) = [k \in 1..produced |-> k]
    /\ (readerPc = "send" /\ Len(dataChan) = DataChanCap)
          => ~ENABLED ReaderSend /\ ~ENABLED ReaderRead

\* C13 witness: dataChan is full and the reader holds the next chunk, which it
\* cannot enqueue.
C13_Witness ==
    /\ Len(dataChan) = DataChanCap
    /\ readerPc = "send"
    /\ chunk.seq = DataChanCap + 1
    /\ ~ENABLED ReaderSend

-----------------------------------------------------------------------------
(* Properties of the classifier *)

\* The table of candidates by function code, for a window w of at least 2 bytes
TableCandidates(w) ==
    IF w[2] \in 1..4
       THEN IF Len(w) >= 3 /\ 5 + w[3] # 8
               THEN <<Candidate(8, DirRequest), Candidate(5 + w[3], DirResponse)>>
               ELSE <<Candidate(8, DirRequest)>>
    ELSE IF w[2] \in {5, 6} THEN <<Candidate(8, DirUnknown)>>
    ELSE IF w[2] \in {15, 16}
       THEN IF Len(w) >= 7
               THEN <<Candidate(9 + w[7], DirRequest), Candidate(8, DirResponse)>>
               ELSE <<>>
    ELSE IF w[2] \in 129..144 THEN <<Candidate(5, DirResponse)>>
    ELSE <<>>

\* C14: for every window the classifier returns the candidates of the table,
\* none for a window shorter than 2 bytes, and FrameLen returns the first
\* candidate's length, or -1 when there is none.
C14_ClassifierFollowsTable ==
    splitPc = "classified" =>
       /\ Len(splitIn) < 2 => splitOut.candidates = <<>>
       /\ Len(splitIn) >= 2 => splitOut.candidates = TableCandidates(splitIn)
       /\ splitOut.candidates = <<>> => splitOut.frameLen = -1
       /\ splitOut.candidates # <<>> => splitOut.frameLen = splitOut.candidates[1].length

\* C14 witness: a read-holding-registers window whose byte count 3 would make
\* the response 8 bytes long: only the request candidate is offered.
C14_Witness ==
    /\ splitPc = "classified"
    /\ Len(splitIn) = 8 /\ splitIn[2] = 3 /\ splitIn[3] = 3
    /\ splitOut.candidates = <<Candidate(8, DirRequest)>>
    /\ splitOut.frameLen = 8

-----------------------------------------------------------------------------
(* Properties of the pcap writer *)

\* A reader of the container format: the byte order from the magic number,
\* then records of a 16-byte header and as many payload bytes as it announces.
Get32(big, b, pos) ==
    IF big THEN ((b[pos + 1] * 256 + b[pos + 2]) * 256 + b[pos + 3]) * 256 + b[pos + 4]
           ELSE ((b[pos + 4] * 256 + b[pos + 3]) * 256 + b[pos + 2]) * 256 + b[pos + 1]

Get16(big, b, pos) ==
    IF big THEN b[pos + 1] * 256 + b[pos + 2] ELSE b[pos + 2] * 256 + b[pos + 1]

ReadOrder(b) ==
    IF Len(b) < 24 THEN "short"
    ELSE IF SubSeq(b, 1, 4) = <<161, 178, 195, 212>> THEN "big"
    ELSE IF SubSeq(b, 1, 4) = <<212, 195, 178, 161>> THEN "little"
    ELSE "unknown"

BadRecord == [sec |-> -1, usec |-> -1, caplen |-> -1, origlen |-> -1, data |-> <<>>]

RECURSIVE ReadRecords(_, _, _)
ReadRecords(big, b, pos) ==
    IF pos >= Len(b) THEN <<>>
    ELSE IF pos + 16 > Len(b) THEN <<BadRecord>>
    ELSE IF pos + 16 + Get32(big, b, pos + 8) > Len(b) THEN <<BadRecord>>
    ELSE << [sec |-> Get32(big, b, pos), usec |-> Get32(big, b, pos + 4),
             caplen |-> Get32(big, b, pos + 8), origlen |-> Get32(big, b, pos + 12),
             data |-> Slice(b, pos + 16, Get32(big, b, pos + 8))] >>
         \o ReadRecords(big, b, pos + 16 + Get32(big, b, pos + 8))

\* What the reader finds in the sink
SinkBytes == FileBytes(bigEndian, sink)

SinkRecords == ReadRecords(ReadOrder(SinkBytes) = "big", SinkBytes, 24)

RECURSIVE RecordBytes(_, _)
RecordBytes(ws, n) ==
    IF n = 0 THEN 0 ELSE RecordBytes(ws, n - 1) + 16 + Len(PayloadLib[ws[n].arg])

\* C15: after NewWriter and N successful WritePacket calls the sink holds 24
\* header bytes and N records of 16 header bytes and the payload; a reader
\* finds the writer's byte order and, in call order, N records whose captured
\* and original lengths are the payload's length, whose payload is the one
\* passed, and whose timestamp is the one passed cut to microseconds.
C15_ContainerRoundTrip ==
    (splitPc = "writer" /\ faults = 0) =>
       /\ Len(SinkBytes) = 24 + RecordBytes(writes, Len(writes))
       /\ ReadOrder(SinkBytes) = IF bigEndian THEN "big" ELSE "little"
       /\ Len(SinkRecords) = Len(writes)
       /\ \A k \in 1..Len(writes) :
            /\ SinkRecords[k].data = PayloadLib[writes[k].arg]
            /\ SinkRecords[k].caplen = Len(PayloadLib[writes[k].arg])
            /\ SinkRecords[k].origlen = Len(PayloadLib[writes[k].arg])
            /\ SinkRecords[k].usec < 1000000
            /\ SinkRecords[k].sec * 1000000 + SinkRecords[k].usec
                  = (writes[k].ts * 1000000) \div TicksPerSecond

\* C15 witness: two successful calls, the second with a payload of 65536 bytes.
C15_Witness ==
    /\ splitPc = "writer" /\ faults = 0
    /\ Len(writes) = 2
    /\ PayloadLib[writes[1].arg] = <<2, 3, 0>> /\ writes[1].ts = TicksPerSecond + 7
    /\ Len(PayloadLib[writes[2].arg]) = snapLen + 1
    /\ Len(SinkRecords) = 2
    /\ SinkRecords[1].data = <<2, 3, 0>>
    /\ SinkRecords[2].caplen = snapLen + 1

\* The 24 bytes of the global header for a link type, in either byte order
HeaderLiteral(big, linkType) ==
    IF big
       THEN <<161, 178, 195, 212,  0, 2,  0, 4,  0, 0, 0, 0,  0, 0, 0, 0,
              0, 0, 255, 255,  0, 0, 0, linkType>>
       ELSE <<212, 195, 178, 161,  2, 0,  4, 0,  0, 0, 0, 0,  0, 0, 0, 0,
              255, 255, 0, 0,  linkType, 0, 0, 0>>

\* C16: throughout the capture the sink starts with the 24 bytes of the
\* global header: magic a1b2c3d4, version 2.4, zone 0, accuracy 0, maximum
\* length 65535 and the link type, in the selected byte order; the link type is
\* 250 with frame splitting and 147 without.
C16_GlobalHeaderBytes ==
    pc \in {"loop", "done"} =>
       /\ Len(SinkBytes) >= 24
       /\ SubSeq(SinkBytes, 1, 24)
             = HeaderLiteral(bigEndian, IF modbusMode THEN 250 ELSE 147)
       /\ Len(sink) = 1 => Len(SinkBytes) = 24

\* C16 witness: a little-endian capture with frame splitting has ended after
\* writing records.
C16_Witness ==
    /\ pc = "done" /\ modbusMode /\ ~bigEndian
    /\ Len(sink) > 1
    /\ SubSeq(SinkBytes, 1, 24)
          = <<212, 195, 178, 161, 2, 0, 4, 0, 0, 0, 0, 0, 0, 0, 0, 0, 255, 255, 0, 0,
              250, 0, 0, 0>>

-----------------------------------------------------------------------------
(* Properties of the capture loop: the record count and failed writes *)

\* The WritePacket calls so far that succeeded
OkWrites == SelectSeq(writes, LAMBDA w : w.res = "ok")

\* C17 as stated: when the capture has ended, packetCount, the count that is
\* reported, is the number of WritePacket calls that succeeded.
C17_CountIsRecordsWritten ==
    pc = "done" => packetCount = Len(OkWrites)

\* C18 as stated: a failed WritePacket call leaves no record header without
\* its payload in the sink ahead of a record written by a later call, and what
\* a reader finds in the sink is the payloads of the calls that succeeded, in
\* call order.
C18_FailedWriteLeavesNoPartialRecord ==
    /\ \A k \in 2..Len(sink) : ~sink[k].complete => k = Len(sink)
    /\ (\A k \in 2..Len(sink) : sink[k].complete) =>
          [k \in 1..Len(SinkRecords) |-> SinkRecords[k].data]
             = [k \in 1..Len(OkWrites) |-> OkWrites[k].payload]

\* A step of the loop that calls flush
FlushStep == LoopTimer \/ LoopSignal \/ LoopReadErr

\* C19 as stated: whenever the loop waits for its next event the buffer is
\* non-empty exactly when the silence timer is armed; only the chunk case
\* makes the buffer non-empty and only a flush empties it.
C19_BufferedIffTimerArmed ==
    /\ [](pc = "loop" => (packetBuf # Nil <=> timerAt # NoTimer))
    /\ [][ /\ (packetBuf = Nil /\ packetBuf' # Nil) => LoopChunk
           /\ (packetBuf # Nil /\ packetBuf' = Nil) => FlushStep ]_vars

\* C20: in frame-splitting mode, when the buffer of a flush split alone yields
\* a frame, the flush writes those frames, frame k stamped with the buffer's
\* first-byte time plus the wire time of the frames before it; the bytes left
\* over are the remainder carried on, with the first-byte time plus the wire
\* time of all the frames' bytes as its time, and nothing is carried when no
\* byte is left over.  The remainder carried is that of the last flush alone.
C20_AloneParseCarriesRemainder ==
    /\ \A i \in 1..Len(flushes) :
         LET fl == flushes[i]
             sp == SplitFramesPartial(fl.buf)
         IN  (fl.mode /\ sp.frames # Nil) =>
                /\ fl.plan.baseTime = fl.T
                /\ AsFrames(fl.plan.recs) = sp.frames
                /\ \A k \in 1..Len(sp.frames) :
                     fl.plan.recs[k].ts
                        = fl.T + WireTime(Len(FrameBytes(SubSeq(sp.frames, 1, k - 1))))
                /\ fl.plan.prevExtra = sp.remainder
                /\ sp.remainder # Nil =>
                     fl.plan.prevExtraTime = fl.T + WireTime(Len(FrameBytes(sp.frames)))
                /\ FrameBytes(sp.frames) \o sp.remainder = fl.buf
                /\ ~AnyEpipe(FlushWrites(i)) => AsFrames(FlushWrites(i)) = sp.frames
    /\ (modbusMode /\ flushes # <<>>) =>
          /\ prevExtra = flushes[Len(flushes)].plan.prevExtra
          /\ prevExtra # Nil => prevExtraTime = flushes[Len(flushes)].plan.prevExtraTime

\* C20 witness: a second buffer that parses alone is flushed while a remainder
\* that is not stale is carried; it leaves the remainder 02 03, timed one
\* request's wire time after the buffer's first byte.
C20_Witness ==
    /\ Len(flushes) = 2
    /\ flushes[2].mode
    /\ flushes[2].extraIn # Nil /\ ~StaleAt(flushes[2])
    /\ flushes[2].buf = reqFrame \o <<2, 3>>
    /\ AsFrames(FlushWrites(2)) = <<Frame(reqFrame, DirRequest)>>
    /\ prevExtra = <<2, 3>>
    /\ prevExtraTime = flushes[2].T + 1

-----------------------------------------------------------------------------
(* Properties of the flush: the fallback record *)

Earliest(a, b) == IF a < b THEN a ELSE b

\* Neither the buffer of a flush alone nor, when a remainder that is not stale
\* was found, the remainder followed by the buffer yields a frame
NothingParses(fl) ==
    /\ SplitFramesPartial(fl.buf).frames = Nil
    /\ FreshExtra(fl) # Nil => SplitFramesPartial(FreshExtra(fl) \o fl.buf).frames = Nil

\* C21 as stated: in frame-splitting mode a flush for which nothing parses
\* makes exactly one WritePacket call, for an Unknown-direction record of the
\* remainder that is not stale (if any) followed by the buffer, stamped with
\* the earliest of the remainder's time (when a remainder is put first) and
\* the buffer's first-byte time; it carries no remainder on.
C21_FallbackOneUnknownRecord ==
    \A i \in 1..Len(flushes) :
       (flushes[i].mode /\ NothingParses(flushes[i])) =>
          /\ Len(FlushWrites(i)) = 1
          /\ AsFrames(FlushWrites(i))
                = <<Frame(FreshExtra(flushes[i]) \o flushes[i].buf, DirUnknown)>>
          /\ FlushWrites(i)[1].ts
                = IF FreshExtra(flushes[i]) # Nil
                     THEN Earliest(flushes[i].extraTimeIn, flushes[i].T)
                     ELSE flushes[i].T
          /\ flushes[i].plan.prevExtra = Nil
          /\ i = Len(flushes) => prevExtra = Nil

-----------------------------------------------------------------------------
(* Properties of the decoder: the exact split and the partial split *)

\* The index in the classifier's table at pos of the candidate the frame is,
\* 0 when it is none of them
TableIndex(data, pos, frame) ==
    IF \E i \in DOMAIN frameCandidates(From(data, pos)) :
          frameCandidates(From(data, pos))[i] = Candidate(Len(frame.Data), frame.Dir)
       THEN CHOOSE i \in DOMAIN frameCandidates(From(data, pos)) :
               frameCandidates(From(data, pos))[i] = Candidate(Len(frame.Data), frame.Dir)
       ELSE 0

\* No candidate before the i-th of the table at pos fits in data and has a
\* partition of the bytes after it
NoEarlierBranch(data, pos, i) ==
    \A h \in 1..(i - 1) :
       \/ pos + frameCandidates(From(data, pos))[h].length > Len(data)
       \/ NumSplits(data, pos + frameCandidates(From(data, pos))[h].length) = 0

\* The frames are the first partition of data in depth-first, table order
DepthFirstFirst(data, frames) ==
    \A j \in 1..Len(frames) :
       /\ TableIndex(data, SumLen(frames, j - 1), frames[j]) # 0
       /\ NoEarlierBranch(data, SumLen(frames, j - 1),
                          TableIndex(data, SumLen(frames, j - 1), frames[j]))

\* C22: splitFrom returns a frame list exactly when the non-empty buffer has a
\* partition into frames the classifier offers; the frames returned are the
\* whole buffer, each with the bytes and the direction of a candidate offered
\* at its offset, and they are the first partition in depth-first, table
\* order.  For the empty buffer it returns the empty list.
C22_ExactSplitSoundComplete ==
    SplitDone =>
       /\ InBytes(splitIn) = Nil => splitOut.exact = Nil
       /\ InBytes(splitIn) # Nil =>
             /\ splitOut.exact # Nil <=> NumSplits(InBytes(splitIn), 0) > 0
             /\ splitOut.exact # Nil =>
                   /\ FrameBytes(splitOut.exact) = InBytes(splitIn)
                   /\ Offered(InBytes(splitIn), splitOut.exact)
                   /\ DepthFirstFirst(InBytes(splitIn), splitOut.exact)

\* C22 witness: a buffer with more than one partition, whose first frame is
\* not the last candidate of the table that leads to a partition.
C22_Witness ==
    /\ SplitDone
    /\ NumSplits(InBytes(splitIn), 0) > 1
    /\ splitOut.exact # Nil
    /\ \E h \in DOMAIN frameCandidates(InBytes(splitIn)) :
          /\ h > TableIndex(InBytes(splitIn), 0, splitOut.exact[1])
          /\ frameCandidates(InBytes(splitIn))[h].length <= Len(InBytes(splitIn))
          /\ NumSplits(InBytes(splitIn), frameCandidates(InBytes(splitIn))[h].length) > 0

\* C23: SplitFramesPartial returns frames and a remainder that together are
\* the input, each frame a candidate the classifier offers at its offset; the
\* remainder is nil exactly when every byte was consumed and is never an empty
\* slice that is not nil; it does not share the input's array, so it reads the
\* same after the caller overwrites the buffer.  When the exact split succeeds
\* its frames are returned with no remainder; otherwise every frame is the
\* first candidate in table order that fits at its offset, and none fits where
\* the remainder starts.
C23_PartialSplitAccountsForInput ==
    /\ SplitDone =>
          /\ FrameBytes(splitOut.partial.frames) \o splitOut.partial.remainder
                = InBytes(splitIn)
          /\ Offered(InBytes(splitIn), splitOut.partial.frames)
          /\ splitOut.slice.bytes = splitOut.partial.remainder
          /\ splitOut.slice.isNil
                <=> Len(FrameBytes(splitOut.partial.frames)) = Len(InBytes(splitIn))
          /\ ~splitOut.slice.isNil => Len(splitOut.slice.bytes) > 0
          /\ ~splitOut.slice.shared
          /\ splitOut.exact # Nil =>
                splitOut.partial = [frames |-> splitOut.exact, remainder |-> Nil]
          /\ splitOut.exact = Nil =>
                /\ GreedyConsistent(InBytes(splitIn), splitOut.partial.frames)
                /\ InBytes(splitIn) # Nil =>
                      Fitting(InBytes(splitIn), Len(FrameBytes(splitOut.partial.frames)))
                         = <<>>
    /\ splitPc = "reused" => splitOut.held = splitOut.partial.remainder

\* C23 witness: the caller has overwritten a buffer whose split left a frame
\* and a remainder; the buffer no longer ends with the remainder's bytes.
C23_Witness ==
    /\ splitPc = "reused"
    /\ splitOut.partial.frames # Nil
    /\ splitOut.partial.remainder # Nil
    /\ From(splitOut.buf, Len(splitOut.buf) - Len(splitOut.partial.remainder))
          # splitOut.partial.remainder
    /\ splitOut.held = splitOut.partial.remainder

-----------------------------------------------------------------------------
(* Properties of the flush: timestamps and payloads of the frames *)

\* Line settings the flags accept: -databits, -stopbits, -parity
DataBitsLib == {5, 6, 7, 8}

StopBitsLib == {1, 2}

ParityLib == {"none", "odd", "even", "mark", "space"}

\* Start bit, data bits, a parity bit unless parity is none, stop bits
BitsPerChar(databits, stopbitsN, parity) ==
    1 + databits + (IF parity = "none" THEN 0 ELSE 1) + stopbitsN

\* The buffer of the flush yields a frame when split alone
ParsesAlone(fl) == SplitFramesPartial(fl.buf).frames # Nil

\* The flush put a remainder before its buffer and split the two together
Prepended(fl) == ~ParsesAlone(fl) /\ FreshExtra(fl) # Nil

\* The frames a flush of frame-splitting mode found
FramesFound(fl) ==
    IF Prepended(fl) THEN SplitFramesPartial(FreshExtra(fl) \o fl.buf).frames
    ELSE SplitFramesPartial(fl.buf).frames

\* The base time of a flush: the remainder's time when it was put first
BaseTimeOf(fl) == IF Prepended(fl) THEN fl.extraTimeIn ELSE fl.T

\* C24: in frame-splitting mode the k-th WritePacket call of a flush that found
\* frames is for the k-th frame, at the base time plus the time
\* (bytes of the frames before it * bitsPerChar) / baud, cut to the clock's
\* resolution; the first is at the base time itself.  The base time is the
\* buffer's first-byte time, or the remainder's time when the remainder was
\* put first.  bitsPerChar is 1 + data bits + 1 (parity other than none) + stop
\* bits.
C24_FrameTimestamps ==
    /\ \A d \in DataBitsLib, sb \in StopBitsLib, p \in ParityLib :
          charBits(d, sb, p) = BitsPerChar(d, sb, p)
    /\ \A i \in 1..Len(flushes) :
          (flushes[i].mode /\ FramesFound(flushes[i]) # Nil) =>
             /\ Len(FlushWrites(i)) <= Len(FramesFound(flushes[i]))
             /\ ~AnyEpipe(FlushWrites(i)) =>
                   Len(FlushWrites(i)) = Len(FramesFound(flushes[i]))
             /\ \A k \in 1..Len(FlushWrites(i)) :
                   /\ AsFrame(FlushWrites(i)[k]) = FramesFound(flushes[i])[k]
                   /\ FlushWrites(i)[k].ts
                         = BaseTimeOf(flushes[i])
                           + (Len(FrameBytes(SubSeq(FramesFound(flushes[i]), 1, k - 1)))
                                 * BitsPerChar(DataBits, StopBits, Parity) * TicksPerSecond)
                             \div Baud
                   /\ k = 1 => FlushWrites(i)[k].ts = BaseTimeOf(flushes[i])

\* C24 witness: one flush has written request, response, request; the third
\* frame, 15 bytes after the first, is stamped one tick after the base time.
C24_Witness ==
    /\ Len(flushes) = 1 /\ flushes[1].mode
    /\ flushes[1].buf = reqFrame \o respFrame \o reqFrame
    /\ Len(FlushWrites(1)) = 3
    /\ FlushWrites(1)[1].ts = flushes[1].T
    /\ FlushWrites(1)[2].ts = flushes[1].T + 1
    /\ FlushWrites(1)[3].ts = flushes[1].T + 1
    /\ FlushWrites(1)[3].data = reqFrame

\* C25: in frame-splitting mode the payload of every WritePacket call is 12
\* bytes followed by the frame's bytes; the 12 bytes are the seconds and the
\* microseconds of the call's timestamp, big-endian, the direction of the frame
\* (0 Unknown, 1 Request, 2 Response: that of the frame found, Unknown for
\* the fallback record) and three zero bytes.  In the file, whatever its byte
\* order, the seconds and microseconds of each record header, read in the
\* file's order, are those the payload's first 8 bytes hold big-endian.
C25_RtacPrefix ==
    /\ \A k \in 1..Len(writes) :
          /\ Len(writes[k].payload) = 12 + Len(writes[k].data)
          /\ SubSeq(writes[k].payload, 13, Len(writes[k].payload)) = writes[k].data
          /\ SubSeq(writes[k].payload, 1, 4) = BE32(UnixSec(writes[k].ts))
          /\ SubSeq(writes[k].payload, 5, 8) = BE32(UnixUsec(writes[k].ts))
          /\ writes[k].payload[9] = writes[k].dir
          /\ writes[k].dir \in {DirUnknown, DirRequest, DirResponse}
          /\ SubSeq(writes[k].payload, 10, 12) = <<0, 0, 0>>
    /\ \A i \in 1..Len(flushes) :
          \A k \in 1..Len(FlushWrites(i)) :
             FlushWrites(i)[k].dir
                = IF FramesFound(flushes[i]) # Nil THEN FramesFound(flushes[i])[k].Dir
                  ELSE DirUnknown
    /\ faults = 0 =>
          /\ Len(SinkRecords) = Len(writes)
          /\ \A k \in 1..Len(writes) :
                /\ SinkRecords[k].data = writes[k].payload
                /\ BE32(SinkRecords[k].sec) = SubSeq(SinkRecords[k].data, 1, 4)
                /\ BE32(SinkRecords[k].usec) = SubSeq(SinkRecords[k].data, 5, 8)

\* C25 witness: a little-endian file holds a Response record whose timestamp
\* has a fraction of a second.
C25_Witness ==
    /\ modbusMode /\ ~bigEndian /\ faults = 0
    /\ Len(writes) = 2
    /\ writes[2].dir = DirResponse /\ writes[2].data = respFrame
    /\ UnixUsec(writes[2].ts) > 255
    /\ SubSeq(SinkRecords[2].data, 9, 12) = <<2, 0, 0, 0>>
    /\ SinkRecords[2].usec = UnixUsec(writes[2].ts)

-----------------------------------------------------------------------------
(* Properties of the capture loop: shutdown and progress *)

\* The chunks of all flushes so far, in order
FlushedChunks == Concat([i \in 1..Len(flushes) |-> flushes[i].chunks])

\* Chunk n has left the reader: it is in dataChan or the loop has received it
Enqueued(n) ==
    \/ \E k \in 1..Len(dataChan) : dataChan[k].seq = n
    \/ \E k \in 1..Len(Received) : Received[k].seq = n

\* Chunk n is in the buffer of a flush
InAFlush(n) == \E k \in 1..Len(FlushedChunks) : FlushedChunks[k].seq = n

\* C26 as stated: when the loop has exited on a read error, every chunk the
\* reader enqueued (all the port delivered) is in a flush; a chunk that was
\* enqueued while no signal had come yet is in a flush whenever the loop has
\* exited on a signal.
C26_NoChunkLostAtShutdown ==
    /\ []((pc = "done" /\ exitBy = "readerr") => \A n \in 1..produced : InAFlush(n))
    /\ \A n \in 1..MaxChunks :
          []((Enqueued(n) /\ ~sigSent)
                => []((pc = "done" /\ exitBy = "signal") => InAFlush(n)))

\* The timestamps of the WritePacket calls so far, in call order
WriteTimes == [k \in 1..Len(writes) |-> writes[k].ts]

\* The chunks came from the port with non-decreasing arrival times
ArrivalsOrdered ==
    \A j, k \in 1..Len(Received) :
       Received[j].seq <= Received[k].seq => Received[j].ts <= Received[k].ts

\* C27 as stated: in frame-splitting mode, chunk arrival times being
\* non-decreasing, the records are written with non-decreasing timestamps: no
\* frame's reconstructed time and no remainder's estimated time is later than
\* the timestamp of a record written afterwards.
C27_TimestampsNonDecreasing ==
    (modbusMode /\ ArrivalsOrdered) =>
       /\ \A j, k \in 1..Len(writes) : j <= k => WriteTimes[j] <= WriteTimes[k]
       /\ \A i \in 1..Len(flushes) :
             \A k \in 1..Len(writes) :
                (flushes[i].plan.prevExtra # Nil /\ writes[k].flush > i) =>
                   flushes[i].plan.prevExtraTime <= writes[k].ts

\* The reader goroutine is blocked in its send to the full dataChan
ReaderBlocked == readerPc = "send" /\ Len(dataChan) = DataChanCap

====
